---- MODULE Spec2Model ----
(***************************************************************************)
(* Avatar animation streaming: the AvatarStreamManager registry and cache  *)
(* (backend/websocket_handler.py), the per-connection task                 *)
(* handle_avatar_websocket, the periodic cache cleanup, and the clients    *)
(* that talk to them.                                                      *)
(*                                                                         *)
(* Granularity.  The tasks are asyncio coroutines: a step of a task runs   *)
(* from one suspension point to the next.  The suspension points are       *)
(* websocket.accept(), websocket.send_text(), asyncio.sleep() and          *)
(* websocket.receive_text(); everything between two of them is one atomic  *)
(* action.  send_animation_frame (registry check, send_text, metadata      *)
(* update or disconnect) is taken with the send_text it contains.          *)
(***************************************************************************)
EXTENDS Integers, Sequences, FiniteSets, TLC

(***************************************************************************)
(* Bounds of the model.                                                    *)
(***************************************************************************)
\* connection tasks (one websocket each); a websocket is named by its task
Tasks == {1, 2}
\* the stream ids of the URL /avatar/stream/{stream_id}
StreamIds == {"s1", "s2"}
\* an artifact holds 1..MaxFrames rendered frames
MaxFrames == 2
\* events the environment contributes to one run: client messages, client
\* closes, receive timeouts, stored artifacts and clock ticks
MaxEnvEvents == 2
\* time.time() advances by one or two TimeStep seconds at a time, up to MaxTime
TimeStep == 3600
MaxTime == 7200

(***************************************************************************)
(* Program constants.                                                      *)
(***************************************************************************)
\* cleanup_expired_streams(max_age_seconds: int = 3600)
DefaultMaxAge == 3600
\* AvatarAnimationEngine.fps
FPS == 30
\* durations in milliseconds: DEFAULT pose keyframe 1.0 s, rest keyframe 0.5 s
DefaultPoseMs == 1000
RestMs == 500

EmptyMap == [x \in {} |-> x]
Remove(f, k) == [x \in DOMAIN f \ {k} |-> f[x]]
Put(f, k, v) == [x \in DOMAIN f \cup {k} |-> IF x = k THEN v ELSE f[x]]

(***************************************************************************)
(* Artifacts.  main.py stores only what generate_animation_sequence        *)
(* returned without fallback, so a cached artifact always carries a        *)
(* non-empty, decodable video_data_base64 with at least the rest frame.    *)
(* The artifacts here are those of a gloss of n-1 words that resolve to    *)
(* the DEFAULT pose: n keyframes, frame_number 0..n-1.                     *)
(***************************************************************************)
\* _generate_video_frames: json.dumps + b64encode of the frame bundle
EncodeVideo(n) ==
    [b64 |-> [format |-> "isl_animation_data",
              frames |-> [i \in 1..n |-> [frame_number |-> i - 1]],
              total_frames |-> n,
              fps |-> FPS]]

\* stream_animation: json.loads(b64decode(video_data_base64))
DecodeVideo(v) == v.b64

\* generate_animation_sequence for a gloss of n-1 DEFAULT-pose words
Artifact(n) ==
    LET total_ms == (n - 1) * DefaultPoseMs + RestMs
    IN  [total_duration_ms |-> total_ms,
         frame_count |-> (total_ms * FPS) \div 1000,
         fps |-> FPS,
         video_data_base64 |-> EncodeVideo(n)]

Artifacts == {Artifact(n) : n \in 1..MaxFrames}

\* client messages, by the branch of the receive loop they take
MsgKinds == {"ping", "restart_animation", "get_stats",
             "unknown_type", "bad_json", "non_object"}

VARIABLES
    active_connections,   \* stream_id -> websocket (task id)
    connection_metadata,  \* stream_id -> [frames_sent]
    animation_cache,      \* stream_id -> artifact with cached_at
    now,                  \* time.time()
    pc,                   \* task -> "init" | "streaming" | "receiving" | "done"
    stream_id,            \* task -> the stream id of its URL
    play,                 \* task -> locals of its stream_animation call
    sent,                 \* task -> send_text calls of its stream_animation call in progress
    inbox,                \* websocket -> client messages not yet received
    open,                 \* websocket -> the client end is alive (sends succeed)
    nenv,                 \* environment events so far
    evicted,              \* history: stream ids whose artifact the cleanup removed
    out,                  \* the send_text calls of the last step, in order
    handled,              \* what the last step's receive returned (a message or a timeout): [task, kind]
    gloss,                \* the parsed gloss (word list) handed to the animation engine
    timeline,             \* the keyframes _generate_keyframe_sequence returned
    generated,            \* the animation data generate_animation_sequence returned
    mapper_call,          \* the last lookup made on the gloss mapper and its results
    response              \* what translate_voice_to_isl returned to its caller

vars == <<active_connections, connection_metadata, animation_cache, now, pc,
          stream_id, play, sent, inbox, open, nenv, evicted, out, handled,
          gloss, timeline, generated, mapper_call, response>>

\* the state of the streaming side and the state of the animation engine
manager == <<active_connections, connection_metadata, animation_cache, now, pc,
             stream_id, play, sent, inbox, open, nenv, evicted, out, handled>>
engine == <<gloss, timeline, generated, mapper_call, response>>

Msg(type, n, code) == [type |-> type, n |-> n, code |-> code]
NoPlay == [frames |-> <<>>, i |-> 0, frame_count |-> 0]
\* nothing generated yet, no lookup made yet
NoAnimation == [generated |-> FALSE]
NoCall == [called |-> FALSE]
\* the last step received no client message
NoMessage == [task |-> 0, kind |-> ""]
\* no translation request answered yet
NoResponse == [answered |-> FALSE]


(***************************************************************************)
(* AvatarStreamManager: each method as an operator from the state it reads *)
(* to the state it leaves.  ac is active_connections, cm is                *)
(* connection_metadata.  A send result is [ok, ac, cm, att]: att lists the *)
(* send_text calls made (none when the stream id was not registered), each *)
(* with the websocket written to and whether send_text returned or raised. *)
(***************************************************************************)
\* faulty variant: a reconnect keeps the metadata already registered under the id
ConnectKeepsMetadata(ac, cm, ws, sid) ==
    [ac |-> Put(ac, sid, ws),
     cm |-> IF sid \in DOMAIN cm THEN cm ELSE Put(cm, sid, [frames_sent |-> 0])]

Connect(ac, cm, ws, sid) ==
    [ac |-> Put(ac, sid, ws),
     cm |-> Put(cm, sid, [frames_sent |-> 0])]

\* faulty variant: disconnect clears both maps
DisconnectAll(ac, cm, sid) ==
    [ac |-> EmptyMap, cm |-> EmptyMap]

\* faulty variant: disconnect forgets the metadata
DisconnectRegistryOnly(ac, cm, sid) ==
    [ac |-> IF sid \in DOMAIN ac THEN Remove(ac, sid) ELSE ac,
     cm |-> cm]

Disconnect(ac, cm, sid) ==
    [ac |-> IF sid \in DOMAIN ac THEN Remove(ac, sid) ELSE ac,
     cm |-> IF sid \in DOMAIN cm THEN Remove(cm, sid) ELSE cm]

\* faulty variant: the cache is rebuilt around the stored entry
StoreAnimationDataOnly(cache, sid, animation_data, t) ==
    Put(EmptyMap, sid, [data |-> animation_data, cached_at |-> t])

StoreAnimationData(cache, sid, animation_data, t) ==
    Put(cache, sid, [data |-> animation_data, cached_at |-> t])

\* faulty variant: the except branch forgets disconnect()
SendAnimationFrameNoDisconnect(ac, cm, sid, frame_data) ==
    IF sid \notin DOMAIN ac
    THEN [ok |-> FALSE, ac |-> ac, cm |-> cm, att |-> <<>>]
    ELSE [ok |-> open[ac[sid]],
          ac |-> ac,
          cm |-> IF open[ac[sid]] /\ sid \in DOMAIN cm
                 THEN [cm EXCEPT ![sid].frames_sent = @ + 1]
                 ELSE cm,
          att |-> <<[to |-> ac[sid], msg |-> frame_data, ok |-> open[ac[sid]]]>>]

SendAnimationFrame(ac, cm, sid, frame_data) ==
    IF sid \notin DOMAIN ac
    THEN [ok |-> FALSE, ac |-> ac, cm |-> cm, att |-> <<>>]
    ELSE LET websocket == ac[sid] IN
         IF open[websocket]
         THEN [ok |-> TRUE,
               ac |-> ac,
               cm |-> IF sid \in DOMAIN cm
                      THEN [cm EXCEPT ![sid].frames_sent = @ + 1]
                      ELSE cm,
               att |-> <<[to |-> websocket, msg |-> frame_data, ok |-> TRUE]>>]
         ELSE LET d == Disconnect(ac, cm, sid) IN
              [ok |-> FALSE,
               ac |-> d.ac,
               cm |-> d.cm,
               att |-> <<[to |-> websocket, msg |-> frame_data, ok |-> FALSE]>>]

\* faulty variant: the error frame is sent twice
SendErrorTwice(ac, cm, sid, error_code) ==
    LET a == SendAnimationFrame(ac, cm, sid, Msg("error", -1, error_code))
        b == SendAnimationFrame(a.ac, a.cm, sid, Msg("error", -1, error_code))
    IN  [ok |-> b.ok, ac |-> b.ac, cm |-> b.cm, att |-> a.att \o b.att]

SendError(ac, cm, sid, error_code) ==
    SendAnimationFrame(ac, cm, sid, Msg("error", -1, error_code))

MetadataMessage(animation_data) ==
    Msg("animation_metadata", animation_data.frame_count, "")

\* faulty variant: the loop sends the first frame again instead of frame k
FrameMessageFirst(frames, k) ==
    Msg("animation_frame", frames[1].frame_number, "")

FrameMessage(frames, k) ==
    Msg("animation_frame", frames[k].frame_number, "")

CompletionMessage(frames) ==
    Msg("animation_complete", Len(frames), "")

\* stream_animation up to the end of its first send: the cache and registry
\* checks, the metadata message, the decode of the frame list
StreamAnimation(ac, cm, cache, sid) ==
    IF sid \notin DOMAIN cache
    THEN LET r == SendError(ac, cm, sid, "ANIMATION_NOT_FOUND") IN
         [ac |-> r.ac, cm |-> r.cm, att |-> r.att, streaming |-> FALSE,
          play |-> NoPlay]
    ELSE IF sid \notin DOMAIN ac
    THEN [ac |-> ac, cm |-> cm, att |-> <<>>, streaming |-> FALSE,
          play |-> NoPlay]
    ELSE LET animation_data == cache[sid].data
             r == SendAnimationFrame(ac, cm, sid, MetadataMessage(animation_data))
         IN  IF ~r.ok
             THEN [ac |-> r.ac, cm |-> r.cm, att |-> r.att,
                   streaming |-> FALSE, play |-> NoPlay]
             ELSE [ac |-> r.ac, cm |-> r.cm, att |-> r.att,
                   streaming |-> TRUE,
                   play |-> [frames |-> DecodeVideo(animation_data.video_data_base64).frames,
                             i |-> 0,
                             frame_count |-> animation_data.frame_count]]

\* the body of the frame loop for frame k, and what follows a break: the
\* completion message is attempted in either case
StreamFrame(ac, cm, sid, frames, k) ==
    LET r == SendAnimationFrame(ac, cm, sid, FrameMessage(frames, k)) IN
    IF r.ok
    THEN [ac |-> r.ac, cm |-> r.cm, att |-> r.att, streaming |-> TRUE]
    ELSE LET c == SendAnimationFrame(r.ac, r.cm, sid, CompletionMessage(frames)) IN
         [ac |-> c.ac, cm |-> c.cm, att |-> r.att \o c.att, streaming |-> FALSE]

\* faulty variant: an entry expires on reaching the maximum age
CleanupExpiredStreamsAtAge(cache, current_time, max_age_seconds) ==
    LET expired_streams ==
            {s \in DOMAIN cache : current_time - cache[s].cached_at >= max_age_seconds}
    IN  [s \in DOMAIN cache \ expired_streams |-> cache[s]]

CleanupExpiredStreams(cache, current_time, max_age_seconds) ==
    LET expired_streams ==
            {s \in DOMAIN cache : current_time - cache[s].cached_at > max_age_seconds}
    IN  [s \in DOMAIN cache \ expired_streams |-> cache[s]]

RECURSIVE SumFramesSent(_, _)
SumFramesSent(cm, ids) ==
    IF ids = {} THEN 0
    ELSE LET s == CHOOSE x \in ids : TRUE
         IN  cm[s].frames_sent + SumFramesSent(cm, ids \ {s})

GetStreamStats(ac, cm, cache) ==
    [active_connections |-> Cardinality(DOMAIN ac),
     cached_animations |-> Cardinality(DOMAIN cache),
     total_frames_sent |-> SumFramesSent(cm, DOMAIN cm),
     connections |-> [s \in DOMAIN cm |-> cm[s].frames_sent]]

(***************************************************************************)
(* Initial state: the manager as constructed, no task started, every       *)
(* client alive; each task is given the stream id of the URL it serves.    *)
(***************************************************************************)
Init ==
    /\ active_connections = EmptyMap
    /\ connection_metadata = EmptyMap
    /\ animation_cache = EmptyMap
    /\ now = 0
    /\ pc = [t \in Tasks |-> "init"]
    /\ stream_id \in {f \in [Tasks -> StreamIds] : f[1] = "s1"}
    /\ play = [t \in Tasks |-> NoPlay]
    /\ sent = [t \in Tasks |-> <<>>]
    /\ inbox = [t \in Tasks |-> <<>>]
    /\ open = [t \in Tasks |-> TRUE]
    /\ nenv = 0
    /\ evicted = {}
    /\ out = <<>>
    /\ handled = NoMessage
    /\ gloss = <<>>
    /\ timeline = <<>>
    /\ generated = NoAnimation
    /\ mapper_call = NoCall
    /\ response = NoResponse

(***************************************************************************)
(* handle_avatar_websocket                                                 *)
(***************************************************************************)
\* a call of stream_animation by task t from registry state (ac, cm)
BeginPlay(t, ac, cm) ==
    LET r == StreamAnimation(ac, cm, animation_cache, stream_id[t]) IN
    /\ active_connections' = r.ac
    /\ connection_metadata' = r.cm
    /\ pc' = [pc EXCEPT ![t] = IF r.streaming THEN "streaming" ELSE "receiving"]
    /\ play' = [play EXCEPT ![t] = r.play]
    /\ sent' = [sent EXCEPT ![t] = IF r.streaming THEN r.att ELSE <<>>]
    /\ out' = r.att

\* faulty variant: the task ends without the finally clause
EndTaskNoCleanup(t, ac, cm, sends) ==
    /\ active_connections' = ac
    /\ connection_metadata' = cm
    /\ pc' = [pc EXCEPT ![t] = "done"]
    /\ out' = sends

\* the finally clause: disconnect(stream_id), and the task is over
EndTask(t, ac, cm, sends) ==
    LET d == Disconnect(ac, cm, stream_id[t]) IN
    /\ active_connections' = d.ac
    /\ connection_metadata' = d.cm
    /\ pc' = [pc EXCEPT ![t] = "done"]
    /\ out' = sends

\* accept() returns: register, then the first stream_animation call
ConnectTask(t) ==
    /\ pc[t] = "init"
    /\ open[t]
    /\ LET c == Connect(active_connections, connection_metadata, t, stream_id[t])
       IN  BeginPlay(t, c.ac, c.cm)
    /\ handled' = NoMessage
    /\ UNCHANGED <<engine, evicted, animation_cache, now, stream_id, inbox, open, nenv>>

\* accept() raises: nothing was registered and no finally clause is entered
AcceptFails(t) ==
    /\ pc[t] = "init"
    /\ ~open[t]
    /\ pc' = [pc EXCEPT ![t] = "done"]
    /\ out' = <<>>
    /\ handled' = NoMessage
    /\ UNCHANGED <<engine, evicted, active_connections, connection_metadata, animation_cache, now,
                   stream_id, play, sent, inbox, open, nenv>>

\* faulty variant: each pass reads the frame list from the cache again
SendNextFrameFromCache(t) ==
    LET sid == stream_id[t]
        frames == IF sid \in DOMAIN animation_cache
                  THEN DecodeVideo(animation_cache[sid].data.video_data_base64).frames
                  ELSE play[t].frames
    IN  /\ pc[t] = "streaming"
        /\ play[t].i < Len(frames)
        /\ LET r == StreamFrame(active_connections, connection_metadata, sid,
                                frames, play[t].i + 1)
           IN  /\ active_connections' = r.ac
               /\ connection_metadata' = r.cm
               /\ pc' = [pc EXCEPT ![t] = IF r.streaming THEN "streaming" ELSE "receiving"]
               /\ play' = [play EXCEPT ![t] = IF r.streaming THEN [@ EXCEPT !.i = @ + 1]
                                                              ELSE NoPlay]
               /\ sent' = [sent EXCEPT ![t] = IF r.streaming THEN @ \o r.att ELSE <<>>]
               /\ out' = r.att
        /\ handled' = NoMessage
        /\ UNCHANGED <<engine, evicted, animation_cache, now, stream_id, inbox, open, nenv>>

\* one pass of the frame loop: send frame i+1, then sleep 1/fps
SendNextFrame(t) ==
    /\ pc[t] = "streaming"
    /\ play[t].i < Len(play[t].frames)
    /\ LET r == StreamFrame(active_connections, connection_metadata, stream_id[t],
                            play[t].frames, play[t].i + 1)
       IN  /\ active_connections' = r.ac
           /\ connection_metadata' = r.cm
           /\ pc' = [pc EXCEPT ![t] = IF r.streaming THEN "streaming" ELSE "receiving"]
           /\ play' = [play EXCEPT ![t] = IF r.streaming THEN [@ EXCEPT !.i = @ + 1]
                                                          ELSE NoPlay]
           /\ sent' = [sent EXCEPT ![t] = IF r.streaming THEN @ \o r.att ELSE <<>>]
           /\ out' = r.att
    /\ handled' = NoMessage
    /\ UNCHANGED <<engine, evicted, animation_cache, now, stream_id, inbox, open, nenv>>

\* the loop ran to its end: the completion message
SendCompletion(t) ==
    /\ pc[t] = "streaming"
    /\ play[t].i = Len(play[t].frames)
    /\ LET r == SendAnimationFrame(active_connections, connection_metadata,
                                   stream_id[t], CompletionMessage(play[t].frames))
       IN  /\ active_connections' = r.ac
           /\ connection_metadata' = r.cm
           /\ out' = r.att
    /\ pc' = [pc EXCEPT ![t] = "receiving"]
    /\ play' = [play EXCEPT ![t] = NoPlay]
    /\ sent' = [sent EXCEPT ![t] = <<>>]
    /\ handled' = NoMessage
    /\ UNCHANGED <<engine, evicted, animation_cache, now, stream_id, inbox, open, nenv>>

\* receive_text() returned the head of the queue
Received(t, kind) ==
    /\ pc[t] = "receiving"
    /\ inbox[t] # <<>>
    /\ Head(inbox[t]) = kind
    /\ inbox' = [inbox EXCEPT ![t] = Tail(@)]
    /\ handled' = [task |-> t, kind |-> kind]

RecvPing(t) ==
    /\ Received(t, "ping")
    /\ LET r == SendAnimationFrame(active_connections, connection_metadata,
                                   stream_id[t], Msg("pong", -1, ""))
       IN  /\ active_connections' = r.ac
           /\ connection_metadata' = r.cm
           /\ out' = r.att
    /\ UNCHANGED <<engine, evicted, animation_cache, now, pc, stream_id, play, sent, open, nenv>>

\* faulty variant: a restart registers the task's connection again before
\* playing
RecvRestartReconnects(t) ==
    LET c == Connect(active_connections, connection_metadata, t, stream_id[t]) IN
    /\ Received(t, "restart_animation")
    /\ BeginPlay(t, c.ac, c.cm)
    /\ UNCHANGED <<engine, evicted, animation_cache, now, stream_id, open, nenv>>

RecvRestart(t) ==
    /\ Received(t, "restart_animation")
    /\ BeginPlay(t, active_connections, connection_metadata)
    /\ UNCHANGED <<engine, evicted, animation_cache, now, stream_id, open, nenv>>

RecvGetStats(t) ==
    /\ Received(t, "get_stats")
    /\ LET stats == GetStreamStats(active_connections, connection_metadata, animation_cache)
           r == SendAnimationFrame(active_connections, connection_metadata,
                                   stream_id[t], Msg("stats", stats.total_frames_sent, ""))
       IN  /\ active_connections' = r.ac
           /\ connection_metadata' = r.cm
           /\ out' = r.att
    /\ UNCHANGED <<engine, evicted, animation_cache, now, pc, stream_id, play, sent, open, nenv>>

\* an unknown or missing type, or text that is not JSON: logged only
RecvIgnored(t) ==
    /\ \E kind \in {"unknown_type", "bad_json"} : Received(t, kind)
    /\ out' = <<>>
    /\ UNCHANGED <<engine, evicted, active_connections, connection_metadata, animation_cache, now, pc,
                   stream_id, play, sent, open, nenv>>

\* JSON that is not an object: data.get raises AttributeError, which leaves
\* the loop through `except Exception` and the finally clause
RecvNonObject(t) ==
    /\ Received(t, "non_object")
    /\ EndTask(t, active_connections, connection_metadata, <<>>)
    /\ UNCHANGED <<engine, evicted, animation_cache, now, stream_id, play, sent, open, nenv>>

\* asyncio.TimeoutError: the keepalive ping; a False result breaks the loop
RecvTimeout(t) ==
    /\ pc[t] = "receiving"
    /\ inbox[t] = <<>>
    /\ nenv < MaxEnvEvents
    /\ nenv' = nenv + 1
    /\ LET r == SendAnimationFrame(active_connections, connection_metadata,
                                   stream_id[t], Msg("ping", -1, ""))
       IN  IF r.ok
           THEN /\ active_connections' = r.ac
                /\ connection_metadata' = r.cm
                /\ pc' = pc
                /\ out' = r.att
           ELSE EndTask(t, r.ac, r.cm, r.att)
    /\ handled' = [task |-> t, kind |-> "timeout"]
    /\ UNCHANGED <<engine, evicted, animation_cache, now, stream_id, play, sent, inbox, open>>

\* receive_text() raises WebSocketDisconnect: the client has gone
RecvDisconnect(t) ==
    /\ pc[t] = "receiving"
    /\ inbox[t] = <<>>
    /\ ~open[t]
    /\ EndTask(t, active_connections, connection_metadata, <<>>)
    /\ handled' = NoMessage
    /\ UNCHANGED <<engine, evicted, animation_cache, now, stream_id, play, sent, inbox, open, nenv>>

(***************************************************************************)
(* The environment: clients, the translate endpoint, the clock, and the    *)
(* cleanup task.                                                           *)
(***************************************************************************)
ClientSend(t, kind) ==
    /\ pc[t] \in {"streaming", "receiving"}
    /\ open[t]
    /\ nenv < MaxEnvEvents
    /\ inbox' = [inbox EXCEPT ![t] = Append(@, kind)]
    /\ nenv' = nenv + 1
    /\ out' = <<>>
    /\ handled' = NoMessage
    /\ UNCHANGED <<engine, evicted, active_connections, connection_metadata, animation_cache, now, pc,
                   stream_id, play, sent, open>>

ClientClose(t) ==
    /\ pc[t] # "done"
    /\ open[t]
    /\ nenv < MaxEnvEvents
    /\ nenv' = nenv + 1
    /\ open' = [open EXCEPT ![t] = FALSE]
    /\ out' = <<>>
    /\ handled' = NoMessage
    /\ UNCHANGED <<engine, evicted, active_connections, connection_metadata, animation_cache, now, pc,
                   stream_id, play, sent, inbox>>

\* translate_voice_to_isl: store_animation_data(stream_id, animation_data)
StoreArtifact(sid, a) ==
    /\ nenv < MaxEnvEvents
    /\ nenv' = nenv + 1
    /\ animation_cache' = StoreAnimationData(animation_cache, sid, a, now)
    /\ evicted' = evicted \ {sid}
    /\ out' = <<>>
    /\ handled' = NoMessage
    /\ UNCHANGED <<engine, active_connections, connection_metadata, now, pc, stream_id, play,
                   sent, inbox, open>>

Tick(d) ==
    /\ now + d <= MaxTime
    /\ nenv < MaxEnvEvents
    /\ nenv' = nenv + 1
    /\ now' = now + d
    /\ out' = <<>>
    /\ handled' = NoMessage
    /\ UNCHANGED <<engine, evicted, active_connections, connection_metadata, animation_cache, pc,
                   stream_id, play, sent, inbox, open>>

\* cleanup_expired_streams_task: a pass that raises is logged, evicts nothing,
\* and the loop goes on after its sleep
ExpireFails ==
    /\ out' = <<>>
    /\ handled' = NoMessage
    /\ UNCHANGED <<engine, evicted, active_connections, connection_metadata, animation_cache,
                   now, pc, stream_id, play, sent, inbox, open, nenv>>

\* faulty variant: the cleanup runs only while no connection is registered
ExpireWhenIdle ==
    /\ active_connections = EmptyMap
    /\ animation_cache' = CleanupExpiredStreams(animation_cache, now, DefaultMaxAge)
    /\ evicted' = evicted \cup (DOMAIN animation_cache \ DOMAIN animation_cache')
    /\ out' = <<>>
    /\ handled' = NoMessage
    /\ UNCHANGED <<engine, active_connections, connection_metadata, now, pc, stream_id, play,
                   sent, inbox, open, nenv>>

\* cleanup_expired_streams_task: one pass of the loop
Expire ==
    /\ animation_cache' = CleanupExpiredStreams(animation_cache, now, DefaultMaxAge)
    /\ evicted' = evicted \cup (DOMAIN animation_cache \ DOMAIN animation_cache')
    /\ out' = <<>>
    /\ handled' = NoMessage
    /\ UNCHANGED <<engine, active_connections, connection_metadata, now, pc, stream_id, play,
                   sent, inbox, open, nenv>>

Next ==
    \/ \E t \in Tasks : ConnectTask(t)
    \/ \E t \in Tasks : AcceptFails(t)
    \/ \E t \in Tasks : SendNextFrame(t)
    \/ \E t \in Tasks : SendCompletion(t)
    \/ \E t \in Tasks : RecvPing(t)
    \/ \E t \in Tasks : RecvRestart(t)
    \/ \E t \in Tasks : RecvGetStats(t)
    \/ \E t \in Tasks : RecvIgnored(t)
    \/ \E t \in Tasks : RecvNonObject(t)
    \/ \E t \in Tasks : RecvTimeout(t)
    \/ \E t \in Tasks : RecvDisconnect(t)
    \/ \E t \in Tasks, kind \in MsgKinds : ClientSend(t, kind)
    \/ \E t \in Tasks : ClientClose(t)
    \/ \E sid \in StreamIds, a \in Artifacts : StoreArtifact(sid, a)
    \/ \E d \in {TimeStep, 2 * TimeStep} : Tick(d)
    \/ Expire
    \/ ExpireFails

Spec == Init /\ [][Next]_vars

\* the cleanup task is created at startup and its loop never exits: the event
\* loop resumes it after every sleep, so a pass that can evict something is
\* eventually made
FairSpec == Init /\ [][Next]_vars /\ WF_vars(Expire)

\* the same system from the state a translation leaves before any client has
\* connected: an artifact is cached for s1, the stream id every client uses
InitAfterTranslation ==
    /\ active_connections = EmptyMap
    /\ connection_metadata = EmptyMap
    /\ \E a \in Artifacts : animation_cache = StoreAnimationData(EmptyMap, "s1", a, 0)
    /\ now = 0
    /\ pc = [t \in Tasks |-> "init"]
    /\ stream_id = [t \in Tasks |-> "s1"]
    /\ play = [t \in Tasks |-> NoPlay]
    /\ sent = [t \in Tasks |-> <<>>]
    /\ inbox = [t \in Tasks |-> <<>>]
    /\ open = [t \in Tasks |-> TRUE]
    /\ nenv = 0
    /\ evicted = {}
    /\ out = <<>>
    /\ handled = NoMessage
    /\ gloss = <<>>
    /\ timeline = <<>>
    /\ generated = NoAnimation
    /\ mapper_call = NoCall
    /\ response = NoResponse

\* no further translation arrives and the clock stays within the step
NextAfterTranslation ==
    \/ \E t \in Tasks : ConnectTask(t)
    \/ \E t \in Tasks : AcceptFails(t)
    \/ \E t \in Tasks : SendNextFrame(t)
    \/ \E t \in Tasks : SendCompletion(t)
    \/ \E t \in Tasks : RecvPing(t)
    \/ \E t \in Tasks : RecvRestart(t)
    \/ \E t \in Tasks : RecvGetStats(t)
    \/ \E t \in Tasks : RecvIgnored(t)
    \/ \E t \in Tasks : RecvNonObject(t)
    \/ \E t \in Tasks : RecvTimeout(t)
    \/ \E t \in Tasks : RecvDisconnect(t)
    \/ \E t \in Tasks, kind \in MsgKinds : ClientSend(t, kind)
    \/ \E t \in Tasks : ClientClose(t)
    \/ Expire
    \/ ExpireFails

SpecAfterTranslation == InitAfterTranslation /\ [][NextAfterTranslation]_vars

(***************************************************************************)
(* The animation engine (backend/avatar_engine.py): the gloss mapper's     *)
(* pose library and transition table, the timeline builder and the         *)
(* animation data built from the timeline.  Times are in milliseconds;     *)
(* every time of the library is a multiple of 100 ms.  A keyframe's        *)
(* joint_positions are named by the library keyframe they come from.       *)
(***************************************************************************)
\* the words of a gloss: known signs, other words, in either letter case
Tokens == {"HELLO", "hello", "YOU", "you", "HOW", "YES", "XYZ", "xyz", "default", ""}
\* a parsed gloss has 0..MaxWords words
MaxWords == 2
Glosses == UNION {[1..n -> Tokens] : n \in 0..MaxWords}

\* from_rules.get(to_pose.upper(), 0.3)
FallbackTransitionMs == 300
\* the rest keyframe is placed at current_time + 0.5
RestOffsetMs == 500

\* str.upper()
Upper(w) ==
    CASE w = "hello" -> "HELLO"
      [] w = "you" -> "YOU"
      [] w = "xyz" -> "XYZ"
      [] w = "default" -> "DEFAULT"
      [] OTHER -> w

KeyFrame(timestamp, joint_positions, duration) ==
    [timestamp |-> timestamp, joint_positions |-> joint_positions, duration |-> duration]

AvatarPose(name, kfs, transition_duration) ==
    [name |-> name, keyframes |-> kfs, transition_duration |-> transition_duration]

PoseLibrary ==
    [n \in {"HELLO", "HOW", "YOU", "THANK-YOU", "YES", "NO", "DEFAULT"} |->
        CASE n = "HELLO" ->
                AvatarPose(n, <<KeyFrame(0, <<n, 0>>, 500),
                                KeyFrame(500, <<n, 1>>, 500),
                                KeyFrame(1000, <<n, 2>>, 300)>>, 200)
          [] n = "HOW" ->
                AvatarPose(n, <<KeyFrame(0, <<n, 0>>, 800),
                                KeyFrame(800, <<n, 1>>, 400)>>, 300)
          [] n = "YOU" ->
                AvatarPose(n, <<KeyFrame(0, <<n, 0>>, 600),
                                KeyFrame(600, <<n, 1>>, 400)>>, 200)
          [] n = "THANK-YOU" ->
                AvatarPose(n, <<KeyFrame(0, <<n, 0>>, 500),
                                KeyFrame(500, <<n, 1>>, 800),
                                KeyFrame(1300, <<n, 2>>, 400)>>, 300)
          [] n = "YES" ->
                AvatarPose(n, <<KeyFrame(0, <<n, 0>>, 200),
                                KeyFrame(200, <<n, 1>>, 300),
                                KeyFrame(500, <<n, 2>>, 300),
                                KeyFrame(800, <<n, 3>>, 200)>>, 100)
          [] n = "NO" ->
                AvatarPose(n, <<KeyFrame(0, <<n, 0>>, 100),
                                KeyFrame(100, <<n, 1>>, 300),
                                KeyFrame(400, <<n, 2>>, 300),
                                KeyFrame(700, <<n, 3>>, 200)>>, 100)
          [] OTHER ->
                AvatarPose(n, <<KeyFrame(0, <<n, 0>>, DefaultPoseMs)>>, 200)]

TransitionRules ==
    [f \in {"HELLO", "HOW", "YOU", "THANK-YOU", "YES", "NO", "DEFAULT"} |->
        CASE f = "HELLO" -> ("HOW" :> 300) @@ ("YOU" :> 200) @@ ("DEFAULT" :> 400)
          [] f = "HOW" -> ("YOU" :> 200) @@ ("HELLO" :> 300) @@ ("DEFAULT" :> 300)
          [] f = "YOU" -> ("HELLO" :> 200) @@ ("DEFAULT" :> 300)
          [] f = "THANK-YOU" -> ("DEFAULT" :> 500)
          [] f = "YES" -> ("DEFAULT" :> 200)
          [] f = "NO" -> ("DEFAULT" :> 200)
          [] OTHER -> ("HELLO" :> 300) @@ ("HOW" :> 300) @@ ("YOU" :> 200)
                      @@ ("THANK-YOU" :> 400)]

\* faulty variant: the library is searched with the word as written
GetPoseAsWritten(gloss_word) ==
    IF gloss_word \in DOMAIN PoseLibrary
    THEN PoseLibrary[gloss_word]
    ELSE PoseLibrary["DEFAULT"]

GetPose(gloss_word) ==
    IF Upper(gloss_word) \in DOMAIN PoseLibrary
    THEN PoseLibrary[Upper(gloss_word)]
    ELSE PoseLibrary["DEFAULT"]

GetTransitionDuration(from_pose, to_pose) ==
    LET from_rules == IF Upper(from_pose) \in DOMAIN TransitionRules
                      THEN TransitionRules[Upper(from_pose)]
                      ELSE EmptyMap
    IN  IF Upper(to_pose) \in DOMAIN from_rules
        THEN from_rules[Upper(to_pose)]
        ELSE FallbackTransitionMs

\* sum(kf.duration for kf in keyframes)
RECURSIVE SumDurations(_)
SumDurations(kfs) ==
    IF kfs = <<>> THEN 0 ELSE Head(kfs).duration + SumDurations(Tail(kfs))

\* faulty variant: the clock is not advanced by the durations of a word's pose
RECURSIVE KeyframeLoopNoAdvance(_, _, _, _)
KeyframeLoopNoAdvance(gloss_words, i, current_time, kfs) ==
    IF i > Len(gloss_words)
    THEN [keyframes |-> kfs, current_time |-> current_time]
    ELSE LET word == gloss_words[i]
             pose == GetPose(word)
             start == IF i > 1
                      THEN current_time + GetTransitionDuration(gloss_words[i - 1], word)
                      ELSE current_time
             adjusted == [k \in 1..Len(pose.keyframes) |->
                             KeyFrame(start + pose.keyframes[k].timestamp,
                                      pose.keyframes[k].joint_positions,
                                      pose.keyframes[k].duration)]
         IN  KeyframeLoopNoAdvance(gloss_words, i + 1, start, kfs \o adjusted)

\* faulty variant: the first word too is preceded by a transition, from DEFAULT
RECURSIVE KeyframeLoopLeadingTransition(_, _, _, _)
KeyframeLoopLeadingTransition(gloss_words, i, current_time, kfs) ==
    IF i > Len(gloss_words)
    THEN [keyframes |-> kfs, current_time |-> current_time]
    ELSE LET word == gloss_words[i]
             pose == GetPose(word)
             previous_pose == IF i > 1 THEN gloss_words[i - 1] ELSE "DEFAULT"
             start == current_time + GetTransitionDuration(previous_pose, word)
             adjusted == [k \in 1..Len(pose.keyframes) |->
                             KeyFrame(start + pose.keyframes[k].timestamp,
                                      pose.keyframes[k].joint_positions,
                                      pose.keyframes[k].duration)]
         IN  KeyframeLoopLeadingTransition(gloss_words, i + 1,
                                           start + SumDurations(pose.keyframes),
                                           kfs \o adjusted)

\* the for loop of _generate_keyframe_sequence from word i on
RECURSIVE KeyframeLoop(_, _, _, _)
KeyframeLoop(gloss_words, i, current_time, kfs) ==
    IF i > Len(gloss_words)
    THEN [keyframes |-> kfs, current_time |-> current_time]
    ELSE LET word == gloss_words[i]
             pose == GetPose(word)
             start == IF i > 1
                      THEN current_time + GetTransitionDuration(gloss_words[i - 1], word)
                      ELSE current_time
             adjusted == [k \in 1..Len(pose.keyframes) |->
                             KeyFrame(start + pose.keyframes[k].timestamp,
                                      pose.keyframes[k].joint_positions,
                                      pose.keyframes[k].duration)]
         IN  KeyframeLoop(gloss_words, i + 1, start + SumDurations(pose.keyframes),
                          kfs \o adjusted)

\* faulty variant: the rest keyframe is placed at the clock, without the offset
GenerateKeyframeSequenceRestAtClock(gloss_words) ==
    LET r == KeyframeLoop(gloss_words, 1, 0, <<>>)
        rest_keyframe == KeyFrame(r.current_time,
                                  GetPose("DEFAULT").keyframes[1].joint_positions,
                                  RestMs)
    IN  Append(r.keyframes, rest_keyframe)

GenerateKeyframeSequence(gloss_words) ==
    LET r == KeyframeLoop(gloss_words, 1, 0, <<>>)
        rest_keyframe == KeyFrame(r.current_time + RestOffsetMs,
                                  GetPose("DEFAULT").keyframes[1].joint_positions,
                                  RestMs)
    IN  Append(r.keyframes, rest_keyframe)

\* _generate_video_frames on a timeline: the frame bundle, encoded
GenerateVideoFrames(kfs) ==
    [b64 |-> [format |-> "isl_animation_data",
              frames |-> [i \in 1..Len(kfs) |->
                             [frame_number |-> i - 1,
                              timestamp |-> kfs[i].timestamp,
                              duration |-> kfs[i].duration,
                              joint_positions |-> kfs[i].joint_positions]],
              total_frames |-> Len(kfs),
              duration |-> IF kfs # <<>>
                           THEN kfs[Len(kfs)].timestamp + kfs[Len(kfs)].duration
                           ELSE 0,
              fps |-> FPS]]

\* faulty variant: frame_count is the number of keyframes
GenerateAnimationSequenceCountsKeyframes(gloss_words) ==
    LET kfs == GenerateKeyframeSequence(gloss_words)
        total_duration == SumDurations(kfs)
    IN  [parsed_words |-> gloss_words,
         total_duration_ms |-> total_duration,
         frame_count |-> Len(kfs),
         fps |-> FPS,
         keyframe_count |-> Len(kfs),
         video_data_base64 |-> GenerateVideoFrames(kfs)]

GenerateAnimationSequence(gloss_words) ==
    LET kfs == GenerateKeyframeSequence(gloss_words)
        total_duration == SumDurations(kfs)
    IN  [parsed_words |-> gloss_words,
         total_duration_ms |-> total_duration,
         frame_count |-> (total_duration * FPS) \div 1000,
         fps |-> FPS,
         keyframe_count |-> Len(kfs),
         video_data_base64 |-> GenerateVideoFrames(kfs)]

\* the engine as constructed, given a gloss to animate
EngineInit ==
    /\ active_connections = EmptyMap
    /\ connection_metadata = EmptyMap
    /\ animation_cache = EmptyMap
    /\ now = 0
    /\ pc = [t \in Tasks |-> "init"]
    /\ stream_id = [t \in Tasks |-> "s1"]
    /\ play = [t \in Tasks |-> NoPlay]
    /\ sent = [t \in Tasks |-> <<>>]
    /\ inbox = [t \in Tasks |-> <<>>]
    /\ open = [t \in Tasks |-> TRUE]
    /\ nenv = 0
    /\ evicted = {}
    /\ out = <<>>
    /\ handled = NoMessage
    /\ gloss \in Glosses
    /\ timeline = <<>>
    /\ generated = NoAnimation
    /\ mapper_call = NoCall
    /\ response = NoResponse

\* faulty variant: an empty gloss gets no timeline
GenerateAvatarAnimationRefusesEmpty ==
    /\ generated = NoAnimation
    /\ mapper_call = NoCall
    /\ timeline' = IF gloss = <<>> THEN <<>> ELSE GenerateKeyframeSequence(gloss)
    /\ generated' = GenerateAnimationSequence(gloss)
    /\ UNCHANGED <<manager, gloss, mapper_call, response>>

\* generate_avatar_animation: generate_animation_sequence on the gloss
GenerateAvatarAnimation ==
    /\ generated = NoAnimation
    /\ mapper_call = NoCall
    /\ timeline' = GenerateKeyframeSequence(gloss)
    /\ generated' = GenerateAnimationSequence(gloss)
    /\ UNCHANGED <<manager, gloss, mapper_call, response>>

\* a lookup on the gloss mapper: get_pose(to_pose) and
\* get_transition_duration(from_pose, to_pose).  The mapper only reads its
\* two constant tables, so a lookup is explored on its own, not interleaved
\* with a generation or a translation.
MapperLookup(from_pose, to_pose) ==
    /\ mapper_call = NoCall
    /\ generated = NoAnimation
    /\ response = NoResponse
    /\ mapper_call' = [from_pose |-> from_pose,
                       to_pose |-> to_pose,
                       pose |-> GetPose(to_pose),
                       transition_duration |-> GetTransitionDuration(from_pose, to_pose)]
    /\ UNCHANGED <<manager, gloss, timeline, generated, response>>

(***************************************************************************)
(* The translation request (backend/main.py).  Confidence is in            *)
(* hundredths.  The generation either returns the animation data or raises *)
(* somewhere while building or packaging, which generate_avatar_animation  *)
(* catches and turns into fallback data.                                   *)
(***************************************************************************)
BaseConfidence == 92
SuccessBonus == 5
MaxConfidence == 98
FallbackPenalty == 15
MinConfidence == 75

Min(a, b) == IF a <= b THEN a ELSE b
Max(a, b) == IF a >= b THEN a ELSE b

\* animation_data.get("fallback", False)
IsFallback(data) == IF "fallback" \in DOMAIN data THEN data.fallback ELSE FALSE

\* gloss_to_avatar_stream: the stream id at the end of the URL and the data
GlossToAvatarStream(isl_gloss, sid, raises) ==
    IF raises
    THEN [stream_id |-> "fallback",
          animation_data |-> [gloss_input |-> isl_gloss,
                              error |-> "generation failed",
                              fallback |-> TRUE]]
    ELSE [stream_id |-> sid,
          animation_data |-> GenerateAnimationSequence(isl_gloss)]

\* faulty variant: fallback data earns the bonus of a successful generation
ConfidenceScoreNoPenalty(data) ==
    Min(MaxConfidence, BaseConfidence + SuccessBonus)

ConfidenceScore(data) ==
    IF ~IsFallback(data)
    THEN Min(MaxConfidence, BaseConfidence + SuccessBonus)
    ELSE Max(MinConfidence, BaseConfidence - FallbackPenalty)

\* translate_voice_to_isl on a text that gives the gloss; sid is the stream
\* id a successful generation derives from the gloss and the time
TranslateVoiceToIsl(sid, raises) ==
    /\ response = NoResponse
    /\ mapper_call = NoCall
    /\ LET r == GlossToAvatarStream(gloss, sid, raises) IN
       /\ animation_cache' =
              IF ~IsFallback(r.animation_data)
              THEN StoreAnimationData(animation_cache, r.stream_id, r.animation_data, now)
              ELSE animation_cache
       /\ response' = [status |-> 200,
                       isl_gloss |-> gloss,
                       avatar_stream_url |-> r.stream_id,
                       confidence |-> ConfidenceScore(r.animation_data),
                       animation_data |-> r.animation_data]
    /\ UNCHANGED <<active_connections, connection_metadata, now, pc, stream_id, play,
                   sent, inbox, open, nenv, evicted, out, handled,
                   gloss, timeline, generated, mapper_call>>

EngineNext ==
    \/ GenerateAvatarAnimation
    \/ \E sid \in StreamIds, raises \in BOOLEAN : TranslateVoiceToIsl(sid, raises)
    \/ \E from_pose \in Tokens, to_pose \in Tokens : MapperLookup(from_pose, to_pose)

EngineSpec == EngineInit /\ [][EngineNext]_vars



(***************************************************************************)
(* Vocabulary of the properties.                                           *)
(***************************************************************************)
Connected(t) == pc[t] \in {"streaming", "receiving"}
Registered(sid) == sid \in DOMAIN active_connections
RegisteredAfter(sid) == sid \in DOMAIN active_connections'
\* a step of task t that enters stream_animation
PlayStarts(t) == ConnectTask(t) \/ RecvRestart(t)
\* the messages of a sequence of send_text calls
MsgsOf(att) == [i \in DOMAIN att |-> att[i].msg]
AllOk(att) == \A i \in DOMAIN att : att[i].ok
SomeFailed(att) == \E i \in DOMAIN att : ~att[i].ok
Delivered(to, type, n, code) == [to |-> to, msg |-> Msg(type, n, code), ok |-> TRUE]
Raised(to, type, n, code) == [to |-> to, msg |-> Msg(type, n, code), ok |-> FALSE]
\* what a playback of a frame list announces, sends and reports
ExpectedPlay(p) ==
    <<Msg("animation_metadata", p.frame_count, "")>>
    \o [k \in 1..Len(p.frames) |-> Msg("animation_frame", k - 1, "")]
    \o <<Msg("animation_complete", Len(p.frames), "")>>

(***************************************************************************)
(* C1.  A stream_animation call on a cached artifact whose sends all       *)
(* succeed (its completion message went out, which a failed or refused     *)
(* send before it rules out) on one registered websocket has written, in   *)
(* this order and nothing else: the animation_metadata message, one        *)
(* animation_frame per decoded frame with frame_number 0, 1, ..., n-1, and *)
(* one animation_complete message.                                         *)
(***************************************************************************)
C1_PlaySendsInOrder ==
    [][\A t \in Tasks :
        LET all == sent[t] \o out' IN
        (SendCompletion(t) /\ out' # <<>> /\ AllOk(out')
            /\ \A i \in DOMAIN all : all[i].to = all[1].to)
        => /\ AllOk(all)
           /\ MsgsOf(all) = ExpectedPlay(play[t])
           /\ Len(all) = Len(play[t].frames) + 2]_vars

\* task 1 alone on its stream id has just completed a two-frame playback
C1_Witness ==
    /\ out = <<Delivered(1, "animation_complete", 2, "")>>
    /\ pc[1] = "receiving"
    /\ connection_metadata["s1"].frames_sent = 4

(***************************************************************************)
(* C2.  A stream_animation call for a stream id with no cached artifact,   *)
(* made while a live client is registered under that id, sends exactly one *)
(* error message with code ANIMATION_NOT_FOUND to it and ends (no          *)
(* metadata, frame or completion message follows); the registration, its   *)
(* metadata and the websocket are as they were.                            *)
(***************************************************************************)
C2_CacheMissOneError ==
    [][\A t \in Tasks :
        LET sid == stream_id[t]
            ws == IF ConnectTask(t) THEN t ELSE active_connections[sid]
        IN  (/\ PlayStarts(t)
             /\ sid \notin DOMAIN animation_cache
             /\ (ConnectTask(t) \/ (Registered(sid) /\ open[active_connections[sid]])))
            => /\ out' = <<Delivered(ws, "error", -1, "ANIMATION_NOT_FOUND")>>
               /\ pc'[t] = "receiving"
               /\ play'[t] = NoPlay
               /\ sent'[t] = <<>>
               /\ RegisteredAfter(sid)
               /\ active_connections'[sid] = ws
               /\ sid \in DOMAIN connection_metadata'
               /\ open'[ws]]_vars

\* a restart_animation on an uncached id has just been answered by the error
C2_Witness ==
    /\ out = <<Delivered(1, "error", -1, "ANIMATION_NOT_FOUND")>>
    /\ pc[1] = "receiving"
    /\ "s1" \in DOMAIN active_connections
    /\ connection_metadata["s1"].frames_sent = 2
    /\ animation_cache = EmptyMap

(***************************************************************************)
(* C3.  When send_text raises during a stream_animation call, on the       *)
(* metadata message or on a frame, that call makes no other send_text call *)
(* (no remaining frame, no completion, no error, no second attempt) and    *)
(* ends, and the registry holds neither a connection nor metadata for the  *)
(* stream id.                                                              *)
(***************************************************************************)
C3_SendFailureAbortsPlay ==
    [][\A t \in Tasks :
        ((PlayStarts(t) \/ SendNextFrame(t)) /\ SomeFailed(out'))
        => /\ Len(out') = 1
           /\ pc'[t] = "receiving"
           /\ play'[t] = NoPlay
           /\ sent'[t] = <<>>
           /\ stream_id[t] \notin DOMAIN active_connections'
           /\ stream_id[t] \notin DOMAIN connection_metadata']_vars

\* the second frame of a playback has just failed to go out
C3_Witness ==
    /\ out = <<Raised(1, "animation_frame", 1, "")>>
    /\ pc[1] = "receiving"
    /\ "s1" \notin DOMAIN active_connections

(***************************************************************************)
(* C4.  Whenever a task that had connected ends (client disconnect, failed *)
(* keepalive, exception while handling a message), the state it leaves     *)
(* holds no connection and no metadata for its stream id.                  *)
(***************************************************************************)
C4_CleanupOnTermination ==
    [][\A t \in Tasks :
        (Connected(t) /\ pc'[t] = "done")
        => /\ stream_id[t] \notin DOMAIN active_connections'
           /\ stream_id[t] \notin DOMAIN connection_metadata']_vars

\* a task ended on an exception while its client was still there
C4_Witness ==
    /\ pc[1] = "done"
    /\ open[1]
    /\ "s1" \notin DOMAIN active_connections


(***************************************************************************)
(* C5.  A connect on a stream id that already has a registered connection  *)
(* raises nothing and replaces the registration: the registry has the same *)
(* ids as before, the id is bound to the new websocket, and its metadata   *)
(* is fresh (frames_sent counts from 0: after the step it is the number of *)
(* messages the step itself sent, whatever the replaced count was).        *)
(***************************************************************************)
C5_ReconnectReplaces ==
    [][\A t \in Tasks :
        LET sid == stream_id[t] IN
        (ConnectTask(t) /\ Registered(sid))
        => /\ DOMAIN active_connections' = DOMAIN active_connections
           /\ DOMAIN connection_metadata' = DOMAIN connection_metadata
           /\ active_connections'[sid] = t
           /\ connection_metadata[sid].frames_sent >= 1
           /\ AllOk(out')
           /\ connection_metadata'[sid].frames_sent = Len(out')
           /\ \A s \in DOMAIN active_connections \ {sid} :
                  active_connections'[s] = active_connections[s]
           /\ Connected(t)']_vars

\* task 2 has just connected under the id task 1 is still serving
C5_Witness ==
    /\ stream_id[2] = "s1"
    /\ Connected(1)
    /\ "s1" \in DOMAIN active_connections
    /\ active_connections["s1"] = 2
    /\ connection_metadata["s1"].frames_sent = 1
    /\ out # <<>>
    /\ out[1].to = 2

(***************************************************************************)
(* C6.  disconnect(stream_id), called by the finally clause of a task and  *)
(* by a send that raised, leaves no connection and no metadata for that    *)
(* id, leaves the cache (the id's own artifact included) and every other   *)
(* id's connection and metadata as they were, and changes nothing when the *)
(* id was not registered.                                                  *)
(***************************************************************************)
TaskStep(t) ==
    \/ ConnectTask(t) \/ SendNextFrame(t) \/ SendCompletion(t)
    \/ RecvPing(t) \/ RecvRestart(t) \/ RecvGetStats(t) \/ RecvIgnored(t)
    \/ RecvNonObject(t) \/ RecvTimeout(t) \/ RecvDisconnect(t)

DisconnectCalled(t) ==
    TaskStep(t) /\ ((Connected(t) /\ pc'[t] = "done") \/ SomeFailed(out'))

C6_DisconnectFrame ==
    [][\A t \in Tasks :
        LET sid == stream_id[t] IN
        DisconnectCalled(t)
        => /\ sid \notin DOMAIN active_connections'
           /\ sid \notin DOMAIN connection_metadata'
           /\ animation_cache' = animation_cache
           /\ DOMAIN active_connections' = DOMAIN active_connections \ {sid}
           /\ DOMAIN connection_metadata' = DOMAIN connection_metadata \ {sid}
           /\ \A s \in DOMAIN active_connections' :
                  active_connections'[s] = active_connections[s]
           /\ \A s \in DOMAIN connection_metadata' :
                  connection_metadata'[s] = connection_metadata[s]
           /\ (sid \notin DOMAIN active_connections /\ sid \notin DOMAIN connection_metadata)
              => (active_connections' = active_connections
                  /\ connection_metadata' = connection_metadata)]_vars

\* a send on s1 has just raised; the artifact of s1 and the connection on s2 remain
C6_Witness ==
    /\ SomeFailed(out)
    /\ stream_id[2] = "s2"
    /\ "s1" \notin DOMAIN active_connections
    /\ "s1" \in DOMAIN animation_cache
    /\ "s2" \in DOMAIN active_connections

(***************************************************************************)
(* C7.  A pass of the cleanup removes from the cache exactly the artifacts *)
(* with time.time() - cached_at > max_age_seconds, keeps the others as     *)
(* they are and touches no connection; a stream_animation call on an id    *)
(* whose artifact was evicted (and not stored again), with a live client   *)
(* registered, sends the one ANIMATION_NOT_FOUND error and nothing else.   *)
(***************************************************************************)
C7_ExpireEvictsOld ==
    [][/\ Expire
          => /\ DOMAIN animation_cache' =
                    {s \in DOMAIN animation_cache :
                        now - animation_cache[s].cached_at <= DefaultMaxAge}
             /\ \A s \in DOMAIN animation_cache' :
                    animation_cache'[s] = animation_cache[s]
             /\ active_connections' = active_connections
             /\ connection_metadata' = connection_metadata
       /\ \A t \in Tasks :
            LET sid == stream_id[t]
                ws == IF ConnectTask(t) THEN t ELSE active_connections[sid]
            IN  (/\ PlayStarts(t)
                 /\ sid \in evicted
                 /\ (ConnectTask(t) \/ (Registered(sid) /\ open[active_connections[sid]])))
                => /\ out' = <<Delivered(ws, "error", -1, "ANIMATION_NOT_FOUND")>>
                   /\ pc'[t] = "receiving"
                   /\ play'[t] = NoPlay]_vars

\* the artifact of s1 was evicted, and the client that then connected got the error
C7_Witness ==
    /\ "s1" \in evicted
    /\ out = <<Delivered(1, "error", -1, "ANIMATION_NOT_FOUND")>>
    /\ pc[1] = "receiving"

(***************************************************************************)
(* C8.  An id leaves the cache only in a pass of the cleanup, and only     *)
(* when its age exceeds the maximum; an entry that stays changes only by   *)
(* store_animation_data, which stamps it with the current time.            *)
(***************************************************************************)
C8_OnlyExpiryRemoves ==
    [][\A s \in DOMAIN animation_cache :
        /\ s \notin DOMAIN animation_cache'
           => (Expire /\ now - animation_cache[s].cached_at > DefaultMaxAge)
        /\ (s \in DOMAIN animation_cache' /\ animation_cache'[s] # animation_cache[s])
           => (/\ \E a \in Artifacts : StoreArtifact(s, a)
               /\ animation_cache'[s].cached_at = now)]_vars

\* the artifact of s1 is still cached after the task that played it has ended
C8_Witness ==
    /\ pc[1] = "done"
    /\ open[1]
    /\ "s1" \in DOMAIN animation_cache
    /\ out = <<>>


(***************************************************************************)
(* C9.  A ping from a client is answered by exactly one pong to that       *)
(* client, and while the ping waits to be answered nothing but a pong is   *)
(* sent to that client (the frames of a playback in progress included).    *)
(* Stated for a client whose task is the only one on its stream id, where  *)
(* every message of the task goes to that client, and for a ping that no   *)
(* earlier client message waits in front of.                               *)
(***************************************************************************)
PingWaiting(c) == inbox[c] # <<>> /\ Head(inbox[c]) = "ping"
OnlyTaskOnItsId(c) == \A d \in Tasks \ {c} : stream_id[d] # stream_id[c]

C9_PongBeforeAnythingElse ==
    [][\A c \in Tasks :
        OnlyTaskOnItsId(c)
        => /\ PingWaiting(c)
              => \A i \in DOMAIN out' :
                     (out'[i].to = c /\ out'[i].ok) => out'[i].msg.type = "pong"
           /\ (RecvPing(c) /\ open[c] /\ Registered(stream_id[c]))
              => out' = <<Delivered(c, "pong", -1, "")>>]_vars

(***************************************************************************)
(* C10.  Each receive timeout of a task makes exactly one ping go to that  *)
(* task's client; if the send succeeds the task keeps receiving with the   *)
(* connection registered, and if it fails the task ends and the registry   *)
(* holds no connection for its stream id.                                  *)
(***************************************************************************)
C10_TimeoutSendsOnePing ==
    [][\A t \in Tasks :
        RecvTimeout(t)
        => /\ Len(out') = 1
           /\ out'[1].to = t
           /\ out'[1].msg = Msg("ping", -1, "")
           /\ out'[1].ok
              => (pc'[t] = "receiving" /\ RegisteredAfter(stream_id[t]))
           /\ ~out'[1].ok
              => (pc'[t] = "done" /\ ~RegisteredAfter(stream_id[t]))]_vars

(***************************************************************************)
(* C11.  A client message that is none of ping, restart_animation and      *)
(* get_stats (an unknown or missing type, text that is not JSON, JSON that *)
(* is not an object) is ignored: the step that receives it sends nothing,  *)
(* leaves registry and cache as they were, and the task goes on receiving. *)
(***************************************************************************)
Unrecognized == {"unknown_type", "bad_json", "non_object"}

C11_UnrecognizedIgnored ==
    [][\A t \in Tasks :
        (\E kind \in Unrecognized : Received(t, kind))
        => /\ out' = <<>>
           /\ active_connections' = active_connections
           /\ connection_metadata' = connection_metadata
           /\ animation_cache' = animation_cache
           /\ pc'[t] = "receiving"]_vars

(***************************************************************************)
(* C12.  Plays on one stream id may overlap (two tasks on the same id).    *)
(* Each play sends from the frame list it decoded when it started: the     *)
(* list is the cached one at that moment, no step changes it while the     *)
(* play lasts (a store or a cleanup pass during playback included), and    *)
(* each pass of the loop sends the next frame of that list.  A send that   *)
(* raises removes the id's registration, once: the step makes one failing  *)
(* send_text call, and every later step of a task on the id, the other     *)
(* play's sends and the disconnect of the finally clause included, finds   *)
(* the id unregistered, sends nothing, and leaves registry, metadata and   *)
(* cache as they are.                                                      *)
(***************************************************************************)
Overlapping(t, u) ==
    /\ t # u
    /\ stream_id[t] = stream_id[u]
    /\ pc[t] = "streaming"
    /\ pc[u] = "streaming"

Failures(att) == {i \in DOMAIN att : ~att[i].ok}

C12_OverlappingPlays ==
    [][\A t \in Tasks :
        LET sid == stream_id[t] IN
        /\ (PlayStarts(t) /\ pc'[t] = "streaming")
           => play'[t].frames =
                  DecodeVideo(animation_cache[sid].data.video_data_base64).frames
        /\ (pc[t] = "streaming" /\ pc'[t] = "streaming")
           => play'[t].frames = play[t].frames
        /\ SendNextFrame(t)
           => /\ play[t].i < Len(play[t].frames)
              /\ out' # <<>>
                 => out'[1].msg = Msg("animation_frame",
                                      play[t].frames[play[t].i + 1].frame_number, "")
        /\ SendCompletion(t)
           => (out' # <<>>
               => out'[1].msg = Msg("animation_complete", Len(play[t].frames), ""))
        /\ (TaskStep(t) /\ SomeFailed(out'))
           => /\ Cardinality(Failures(out')) = 1
              /\ Registered(sid)
              /\ ~RegisteredAfter(sid)
              /\ sid \notin DOMAIN connection_metadata'
              /\ \A s \in DOMAIN active_connections \ {sid} :
                     /\ s \in DOMAIN active_connections'
                     /\ active_connections'[s] = active_connections[s]
              /\ animation_cache' = animation_cache
        /\ (TaskStep(t) /\ ~ConnectTask(t) /\ ~Registered(sid))
           => /\ out' = <<>>
              /\ active_connections' = active_connections
              /\ connection_metadata' = connection_metadata
              /\ animation_cache' = animation_cache]_vars

\* two plays overlap on s1, both writing to the websocket registered last;
\* a frame of the first has just raised and removed the registration while
\* the second is still in its loop
C12_Witness ==
    /\ stream_id[2] = "s1"
    /\ pc[1] = "receiving"
    /\ pc[2] = "streaming"
    /\ play[2].i < Len(play[2].frames)
    /\ Len(out) = 1
    /\ out[1].to = 2
    /\ ~out[1].ok
    /\ out[1].msg.type = "animation_frame"
    /\ "s1" \notin DOMAIN active_connections
    /\ "s1" \notin DOMAIN connection_metadata
    /\ "s1" \in DOMAIN animation_cache

(***************************************************************************)
(* C13.  get_stream_stats reports the number of registered connections,    *)
(* the number of cached artifacts, one summary per registered connection,  *)
(* and a total of frames sent that is cumulative over all connections: no  *)
(* step makes the reported total smaller, a disconnect or the replacement  *)
(* of a connection included.                                               *)
(***************************************************************************)
Stats == GetStreamStats(active_connections, connection_metadata, animation_cache)

C13_StatsTotalCumulative ==
    [][/\ Stats.active_connections = Cardinality(DOMAIN active_connections)
       /\ Stats.cached_animations = Cardinality(DOMAIN animation_cache)
       /\ DOMAIN Stats.connections = DOMAIN active_connections
       /\ Stats'.total_frames_sent >= Stats.total_frames_sent]_vars

(***************************************************************************)
(* Vocabulary of the properties of the animation engine.                   *)
(***************************************************************************)
Generated == generated # NoAnimation
LastKeyframe == timeline[Len(timeline)]
DefaultJoints == PoseLibrary["DEFAULT"].keyframes[1].joint_positions

RECURSIVE SumSeq(_)
SumSeq(q) == IF q = <<>> THEN 0 ELSE Head(q) + SumSeq(Tail(q))

\* the transition durations between consecutive words, the durations of the
\* keyframes of the words' poses
TransitionsUsed(words) ==
    SumSeq([i \in 1..(Len(words) - 1) |-> GetTransitionDuration(words[i], words[i + 1])])
PoseDurations(words) ==
    SumSeq([i \in 1..Len(words) |-> SumDurations(GetPose(words[i]).keyframes)])

(***************************************************************************)
(* C14.  For every word list (known and unknown words, any length, the     *)
(* empty list included) the timestamps of the timeline                     *)
(* _generate_keyframe_sequence returns never decrease from one keyframe to *)
(* the next, from the first keyframe to the trailing rest keyframe.        *)
(***************************************************************************)
C14_TimestampsNonDecreasing ==
    Generated
    => /\ timeline # <<>>
       /\ \A i \in 1..(Len(timeline) - 1) :
              timeline[i].timestamp <= timeline[i + 1].timestamp

\* the timeline of a known word followed by an unknown one
C14_Witness ==
    /\ Generated
    /\ gloss = <<"HELLO", "xyz">>
    /\ Len(timeline) = 5
    /\ timeline[3].timestamp = 1000
    /\ timeline[4].timestamp = 1600

(***************************************************************************)
(* C15.  For every non-empty word list the last keyframe of the timeline   *)
(* is the rest keyframe: duration 0.5 s, the joint positions of the        *)
(* DEFAULT pose's first keyframe, and timestamp = the transition durations *)
(* used between consecutive words + the keyframe durations of all the      *)
(* words' poses + 0.5 s.                                                   *)
(***************************************************************************)
C15_RestKeyframeLast ==
    (Generated /\ gloss # <<>>)
    => /\ LastKeyframe.duration = 500
       /\ LastKeyframe.joint_positions = DefaultJoints
       /\ LastKeyframe.timestamp = TransitionsUsed(gloss) + PoseDurations(gloss) + 500

\* HELLO (1.3 s), transition 0.2 s, you (1.0 s): rest keyframe at 3.0 s
C15_Witness ==
    /\ Generated
    /\ gloss = <<"HELLO", "you">>
    /\ LastKeyframe.timestamp = 3000
    /\ LastKeyframe.duration = 500

(***************************************************************************)
(* C16.  For the empty word list the timeline is exactly one keyframe: at  *)
(* timestamp 0.5 s, with the joint positions of the DEFAULT pose's first   *)
(* keyframe and duration 0.5 s.                                            *)
(***************************************************************************)
C16_EmptyGlossRestOnly ==
    (Generated /\ gloss = <<>>)
    => timeline = <<[timestamp |-> 500, joint_positions |-> DefaultJoints,
                     duration |-> 500]>>

\* the empty gloss has been animated
C16_Witness ==
    /\ Generated
    /\ gloss = <<>>
    /\ Len(timeline) = 1
    /\ generated.keyframe_count = 1

(***************************************************************************)
(* C17.  For any two consecutive words a, b of the gloss, b's first        *)
(* keyframe comes exactly get_transition_duration(a, b) after the time at  *)
(* which a's last keyframe ends (its timestamp + its duration: the gap     *)
(* inserted between the two signs), 0.2 s for HELLO followed by YOU; and   *)
(* the first word's keyframes are at their library timestamps, from 0,     *)
(* with no leading transition.                                             *)
(***************************************************************************)
\* the number of keyframes the words before word i contribute
KeyframesBefore(words, i) ==
    SumSeq([j \in 1..(i - 1) |-> Len(GetPose(words[j]).keyframes)])

TransitionGap(i) ==
    LET last_of_a == timeline[KeyframesBefore(gloss, i + 1)]
        first_of_b == timeline[KeyframesBefore(gloss, i + 1) + 1]
    IN  first_of_b.timestamp - (last_of_a.timestamp + last_of_a.duration)

C17_TransitionGapBetweenWords ==
    Generated
    => /\ \A i \in 1..(Len(gloss) - 1) :
              TransitionGap(i) = GetTransitionDuration(gloss[i], gloss[i + 1])
       /\ (Len(gloss) = 2 /\ Upper(gloss[1]) = "HELLO" /\ Upper(gloss[2]) = "YOU")
          => TransitionGap(1) = 200
       /\ gloss # <<>>
          => \A k \in 1..Len(GetPose(gloss[1]).keyframes) :
                 timeline[k].timestamp = PoseLibrary[GetPose(gloss[1]).name].keyframes[k].timestamp

\* HELLO ends at 1.3 s and YOU starts at 1.5 s
C17_Witness ==
    /\ Generated
    /\ gloss = <<"HELLO", "YOU">>
    /\ timeline[1].timestamp = 0
    /\ timeline[3].timestamp + timeline[3].duration = 1300
    /\ timeline[4].timestamp = 1500

(***************************************************************************)
(* C18.  For every word list the animation data's total duration equals    *)
(* the keyframe durations of all the words' poses + the transition         *)
(* durations + the trailing rest, which is the last keyframe's timestamp + *)
(* duration, the value of the `duration` field of the encoded frame        *)
(* bundle.                                                                 *)
(***************************************************************************)
C18_TotalDurationConsistent ==
    Generated
    => /\ generated.total_duration_ms =
              PoseDurations(gloss) + TransitionsUsed(gloss) + 500
       /\ generated.total_duration_ms = LastKeyframe.timestamp + LastKeyframe.duration
       /\ generated.total_duration_ms = DecodeVideo(generated.video_data_base64).duration

(***************************************************************************)
(* C19.  For the gloss [HELLO] the timeline has exactly 4 keyframes: the 3 *)
(* keyframes of the HELLO pose at their library timestamps (no leading     *)
(* transition), then the rest keyframe at the HELLO pose's total duration  *)
(* + 0.5 s; and the animation data's frame_count is fps times its total    *)
(* duration, rounded down.                                                 *)
(***************************************************************************)
C19_SingleHello ==
    (Generated /\ gloss = <<"HELLO">>)
    => /\ Len(timeline) = 4
       /\ \A k \in 1..3 : timeline[k] = PoseLibrary["HELLO"].keyframes[k]
       /\ timeline[1].timestamp = 0
       /\ timeline[2].timestamp = 500
       /\ timeline[3].timestamp = 1000
       /\ timeline[4].timestamp = SumDurations(PoseLibrary["HELLO"].keyframes) + 500
       /\ timeline[4].joint_positions = DefaultJoints
       /\ generated.keyframe_count = 4
       /\ generated.frame_count * 1000 <= FPS * generated.total_duration_ms
       /\ FPS * generated.total_duration_ms < (generated.frame_count + 1) * 1000

\* HELLO has been animated: rest keyframe at 1.8 s, 1.8 s at 30 fps is 54 frames
C19_Witness ==
    /\ Generated
    /\ gloss = <<"HELLO">>
    /\ timeline[4].timestamp = 1800
    /\ generated.total_duration_ms = 1800
    /\ generated.frame_count = 54

(***************************************************************************)
(* C20.  get_pose and get_transition_duration give a result for every      *)
(* string (any letter case, unknown words, the empty string): get_pose the *)
(* pose registered under the upper-cased word, else the DEFAULT pose;      *)
(* get_transition_duration the table entry of the upper-cased pair, else   *)
(* 0.3 s; and words that differ only in letter case give the same results. *)
(***************************************************************************)
Poses == {PoseLibrary[n] : n \in DOMAIN PoseLibrary}

C20_LookupsTotalCaseInsensitive ==
    (mapper_call # NoCall)
    => LET from_upper == Upper(mapper_call.from_pose)
           to_upper == Upper(mapper_call.to_pose)
       IN  /\ mapper_call.pose \in Poses
           /\ mapper_call.transition_duration \in Nat
           /\ mapper_call.pose.name = (IF to_upper \in DOMAIN PoseLibrary
                                       THEN to_upper ELSE "DEFAULT")
           /\ mapper_call.pose = PoseLibrary[mapper_call.pose.name]
           /\ mapper_call.transition_duration =
                  (IF from_upper \in DOMAIN TransitionRules
                      /\ to_upper \in DOMAIN TransitionRules[from_upper]
                   THEN TransitionRules[from_upper][to_upper]
                   ELSE 300)
           /\ \A a \in Tokens, b \in Tokens :
                  (Upper(a) = from_upper /\ Upper(b) = to_upper)
                  => /\ GetPose(b) = mapper_call.pose
                     /\ GetTransitionDuration(a, b) = mapper_call.transition_duration

\* a lookup in lower case found the YOU pose and the HELLO -> YOU entry
C20_Witness ==
    /\ mapper_call # NoCall
    /\ mapper_call.from_pose = "hello"
    /\ mapper_call.to_pose = "you"
    /\ mapper_call.pose.name = "YOU"
    /\ mapper_call.transition_duration = 200

(***************************************************************************)
(* C21.  When the generation of the animation raises, the translation      *)
(* request is still answered normally: the response carries a stream id,   *)
(* the substituted animation data is marked fallback and carries the error *)
(* message, nothing is cached for it, and the confidence is strictly below *)
(* the confidence of a successful generation and within [0, 1].            *)
(***************************************************************************)
Answered == response # NoResponse
FellBack == Answered /\ IsFallback(response.animation_data)

C21_GenerationFailureFallsBack ==
    FellBack
    => /\ response.status = 200
       /\ response.avatar_stream_url = "fallback"
       /\ response.animation_data.fallback = TRUE
       /\ "error" \in DOMAIN response.animation_data
       /\ response.animation_data.error # ""
       /\ animation_cache = EmptyMap
       /\ response.confidence < ConfidenceScore(GenerateAnimationSequence(gloss))
       /\ response.confidence >= 0
       /\ response.confidence <= 100

\* the generation for HELLO YOU raised and the request was answered with 0.77
C21_Witness ==
    /\ FellBack
    /\ gloss = <<"HELLO", "YOU">>
    /\ response.confidence = 77
    /\ response.status = 200

(***************************************************************************)
(* C22.  A stream_animation call on a stream id that has a cached artifact *)
(* but no registered connection does nothing: no send_text call on any     *)
(* websocket, and registry, metadata (frame counters) and cache as they    *)
(* were.  Such a call is the restart_animation of a task whose             *)
(* registration a failed send has removed.                                 *)
(***************************************************************************)
C22_PlayUnregisteredNoOp ==
    [][\A t \in Tasks :
        LET sid == stream_id[t] IN
        (RecvRestart(t) /\ sid \in DOMAIN animation_cache /\ ~Registered(sid))
        => /\ out' = <<>>
           /\ active_connections' = active_connections
           /\ connection_metadata' = connection_metadata
           /\ animation_cache' = animation_cache
           /\ pc'[t] = "receiving"
           /\ play'[t] = NoPlay]_vars

\* task 1 has just handled a restart_animation on s1, whose artifact is
\* cached and whose registration a failed send to the other client removed
C22_Witness ==
    /\ handled = [task |-> 1, kind |-> "restart_animation"]
    /\ out = <<>>
    /\ "s1" \in DOMAIN animation_cache
    /\ "s1" \notin DOMAIN active_connections
    /\ "s1" \notin DOMAIN connection_metadata
    /\ pc[1] = "receiving"
    /\ open[1]

(***************************************************************************)
(* C23.  When the transition table has no entry for (previous word, next   *)
(* word), the clock advances between the two words by the                  *)
(* transition_duration field of one of the two poses involved; HELLO       *)
(* followed by YES is such a pair.                                         *)
(***************************************************************************)
HasTableEntry(from_pose, to_pose) ==
    /\ Upper(from_pose) \in DOMAIN TransitionRules
    /\ Upper(to_pose) \in DOMAIN TransitionRules[Upper(from_pose)]

C23_FallbackIsPoseTransition ==
    Generated
    => \A i \in 1..(Len(gloss) - 1) :
           ~HasTableEntry(gloss[i], gloss[i + 1])
           => TransitionGap(i) \in {GetPose(gloss[i]).transition_duration,
                                    GetPose(gloss[i + 1]).transition_duration}

(***************************************************************************)
(* C24.  When a task ends (client gone, failed send, error) while a later  *)
(* connection holds the registration of the same stream id and stays live, *)
(* the later connection's registry entry and metadata are still there      *)
(* after the step.                                                         *)
(***************************************************************************)
C24_TerminationKeepsLaterRegistration ==
    [][\A t, u \in Tasks :
        LET sid == stream_id[t] IN
        (/\ t # u
         /\ stream_id[u] = sid
         /\ Connected(t) /\ Connected(u)
         /\ Registered(sid) /\ active_connections[sid] = u
         /\ pc'[t] = "done"
         /\ Connected(u)')
        => /\ sid \in DOMAIN active_connections'
           /\ active_connections'[sid] = u
           /\ sid \in DOMAIN connection_metadata']_vars

(***************************************************************************)
(* C25.  Every send_text call made by a step of a connection task (the     *)
(* messages of its play, its pong, its stats reply, its keepalive ping) is *)
(* made on the task's own websocket, never on the websocket of another     *)
(* connection registered under the same stream id.                         *)
(***************************************************************************)
C25_SendsOnOwnTransport ==
    [][\A t \in Tasks :
        TaskStep(t) => \A k \in 1..Len(out') : out'[k].to = t]_vars

(***************************************************************************)
(* C26.  In every reachable state of the manager the stream ids of         *)
(* active_connections are the stream ids of connection_metadata: connect,  *)
(* disconnect, a send that raises and the end of a task, in any            *)
(* interleaving, leave no connection without metadata and no metadata      *)
(* without a connection.                                                   *)
(***************************************************************************)
C26_RegistryMatchesMetadata ==
    DOMAIN active_connections = DOMAIN connection_metadata

\* a send on s1 has just raised and removed its registration, while the
\* connection on s2 stays registered with its metadata
C26_Witness ==
    /\ SomeFailed(out)
    /\ stream_id[1] # stream_id[2]
    /\ \E t \in Tasks :
           /\ pc[t] = "done"
           /\ DOMAIN active_connections = StreamIds \ {stream_id[t]}
           /\ DOMAIN connection_metadata = StreamIds \ {stream_id[t]}

(***************************************************************************)
(* C27.  For a playback that completes (every send succeeded, on one       *)
(* websocket), the frame_count of its animation_metadata message equals    *)
(* the number of animation_frame messages it delivered, which equals the   *)
(* frames_sent of its animation_complete message.                          *)
(***************************************************************************)
FramesDelivered(att) ==
    Cardinality({i \in DOMAIN att : att[i].ok /\ att[i].msg.type = "animation_frame"})

C27_FrameCountMatchesFrames ==
    [][\A t \in Tasks :
        LET all == sent[t] \o out' IN
        (SendCompletion(t) /\ out' # <<>> /\ AllOk(all)
            /\ \A i \in DOMAIN all : all[i].to = all[1].to)
        => /\ all[1].msg.type = "animation_metadata"
           /\ all[Len(all)].msg.type = "animation_complete"
           /\ FramesDelivered(all) = all[Len(all)].msg.n
           /\ all[1].msg.n = FramesDelivered(all)]_vars

(***************************************************************************)
(* C28.  With the cleanup task scheduled fairly, a cached artifact whose   *)
(* age exceeds the maximum age is eventually evicted unless it is stored   *)
(* again, whether or not a client is connected on its stream id and        *)
(* although passes of the cleanup may fail.                                *)
(***************************************************************************)
ExpiredEntry(sid) ==
    /\ sid \in DOMAIN animation_cache
    /\ now - animation_cache[sid].cached_at > DefaultMaxAge

\* the clock never goes back, so an entry that was too old and no longer is
\* has been stored again
C28_ExpiredEventuallyEvicted ==
    \A sid \in StreamIds :
        ExpiredEntry(sid) ~> (sid \notin DOMAIN animation_cache \/ ~ExpiredEntry(sid))

\* the artifact of s1 outlived the maximum age and was evicted while the
\* client of s1 was connected
C28_Witness ==
    /\ "s1" \in evicted
    /\ "s1" \notin DOMAIN animation_cache
    /\ now > DefaultMaxAge
    /\ "s1" \in DOMAIN active_connections
    /\ Connected(active_connections["s1"])
    /\ open[active_connections["s1"]]

====
